---- MODULE Spec2Model ----
(***************************************************************************)
(* Model of the Discogs collection synchronisation pipeline               *)
(* (discogs_scraper.py main / process_item), its persistent store          *)
(* (db_handler.py DatabaseHandler, skip_releases.txt,                      *)
(* last_processed_index.txt) and the editing UI's writes (app.py).         *)
(***************************************************************************)
EXTENDS Integers, Sequences, FiniteSets, TLC

\* Longest remote collection the walk enumerates.
MaxLen == 3

\* Items per page of the collection walk.  The source pages by 100
\* (COLLECTION_PAGE_SIZE, discogs_scraper.py:37); it is scaled down here so
\* that a page boundary falls inside a collection of MaxLen items.
PageSize == 2

\* Number of consecutive attempts for which a transient provider condition
\* (network failure, throttling) persists before the provider answers.
TransientFailures == 2

\* Lengths of the narrative texts the merge functions are applied to: a
\* short and a long text, and the characters of markup a text may carry.
ShortLen == 10

LongLen == 50

MarkupLen == 45

\* Calls of download_image for one image that are followed: the retry of
\* download_image has no stop condition, so the count is cut off here.
MaxAttempts == 3

\* Most candidates an Apple Music search returns.  The source asks for 10
\* ('limit': 10); 3 are enough for a denylisted, an exact and a similar
\* candidate to meet.
MaxCandidates == 3

\* Levels of similarity between a candidate's name and the query term;
\* the highest is SequenceMatcher's ratio 1.0, reached by equal strings only.
MaxRatio == 3

\* Release ids of the remote catalog.
Releases == {"A", "B", "C"}

-----------------------------------------------------------------------------
(* Python values.  Every value that may be None or a dict is a record with  *)
(* a "py" tag, so that None, {} and a populated dict are comparable.        *)

None == [py |-> "None"]

EmptyDict == [py |-> "dict"]

\* Mutant of Truthy: the test "is not None".
Truthy_not_none(d) == d # None

\* Mutant of Truthy: the cache test never succeeds.
Truthy_never(d) == FALSE

\* Python truthiness of a record-or-None value: None and {} are falsy.
Truthy(d) == d # None /\ d # EmptyDict

\* Keys of a dict value.
Keys(d) == DOMAIN d \ {"py"}

\* Keys whose values are themselves dict-or-None values.
NestedKeys == {"apple_music_attributes", "artist_info"}

\* Mutant of json_dumps: a member whose value is None is left out.
json_dumps_omitting_null(d) ==
    IF d = None THEN [json |-> "null"]
    ELSE [json |-> "object",
          members |-> [k \in {n \in Keys(d) :
                                 ~(n \in NestedKeys /\ d[n] = None)} |->
                          IF k \in NestedKeys
                          THEN [json |-> "object",
                                members |-> [m \in Keys(d[k]) |-> d[k][m]]]
                          ELSE d[k]]]

\* json.dumps: None -> null, a dict -> an object whose members are the
\* encoded values of its keys.
json_dumps(d) ==
    LET enc(v) == IF v = None THEN [json |-> "null"]
                  ELSE [json |-> "object",
                        members |-> [k \in Keys(v) |-> v[k]]]
    IN  IF d = None THEN [json |-> "null"]
        ELSE [json |-> "object",
              members |-> [k \in Keys(d) |->
                              IF k \in NestedKeys THEN enc(d[k]) ELSE d[k]]]

\* json.loads: the inverse reading of the text json_dumps wrote.
json_loads(t) ==
    LET dec(u) == IF u.json = "null" THEN None
                  ELSE [k \in DOMAIN u.members \cup {"py"} |->
                           IF k = "py" THEN "dict" ELSE u.members[k]]
    IN  IF t.json = "null" THEN None
        ELSE [k \in DOMAIN t.members \cup {"py"} |->
                 IF k = "py" THEN "dict"
                 ELSE IF k \in NestedKeys THEN dec(t.members[k])
                 ELSE t.members[k]]

-----------------------------------------------------------------------------
(* The remote catalog: what the providers answer for a release.            *)

\* "ok"          the release resolves and Apple Music returns a block
\* "bare"        the release resolves, Apple Music has no match
\* "various"     the release's primary artist is the "Various" marker
\* "shape"       the catalog payload lacks an expected field
\* "no_images"   the release resolves with an Apple Music block, and the
\*               catalog lists no images for it
\* "artist_bio"  the release resolves, and the Apple Music block carries an
\*               artistBio
\* "unavailable" the primary fetch fails with a network/5xx error for the
\*               first TransientFailures attempts, then answers as "ok"
\* "http429"     the primary fetch is throttled (HTTP 429) for the first
\*               TransientFailures attempts, then answers as "ok"
Kinds == {"ok", "bare", "various", "shape", "unavailable", "http429"}

TransientKinds == {"unavailable", "http429"}

\* The kinds of release that resolve and differ in what the record holds.
RecordKinds == {"ok", "bare", "no_images", "artist_bio"}

\* Apple Music attribute block of a matched album.
AppleAttrs == [py |-> "dict", artwork |-> "mzstatic", url |-> "apple"]

\* The URL of a release's first image in the catalog.
DiscogsCover == [py |-> "str", url |-> "discogs"]

\* The artistBio text of an Apple Music block.
AppleBio == [py |-> "str", src |-> "apple_music"]

\* Apple Music attribute block that carries an artistBio.
AppleAttrsBio ==
    [py |-> "dict", artwork |-> "mzstatic", url |-> "apple",
     artistBio |-> AppleBio]

\* The images list of a release that has images.
DiscogsImages == [py |-> "list", first |-> DiscogsCover]

\* The id of the album Spotify found.
SpotifyId == [py |-> "str", id |-> "spotify"]

\* The "missing cover" image URL.
MissingCover == [py |-> "str", url |-> "missing"]

\* The keys of the dictionary process_item builds: "Release ID", "Artist
\* Name", "Album Title", "Slug", "Date Added", "Genre", "Style", "Label",
\* "Catalog Number", "Release Formats", "Release Date", "Country", "Rating",
\* "Track List", "Album Cover URL", "All Images URLs", "Videos",
\* "Release URL", "Notes", "Credits", "Spotify ID", "Artist Info",
\* "Wikipedia Summary", "Wikipedia URL", "Apple Music attributes".
CanonicalKeys ==
    {"release_id", "artist_name", "album_title", "slug", "date_added",
     "genre", "style", "label", "catalog_number", "release_formats",
     "release_date", "country", "rating", "track_list", "album_cover_url",
     "all_images_urls", "videos", "release_url", "notes", "credits",
     "spotify_id", "artist_info", "wikipedia_summary", "wikipedia_url",
     "apple_music_attributes"}

\* A record as the editing UI posts it: any JSON object the operator typed.
EditedData(release_id) ==
    [py |-> "dict",
     release_id |-> release_id,
     album_title |-> "edited",
     album_cover_url |-> DiscogsCover,
     apple_music_attributes |-> AppleAttrs]

\* Contributor (primary artist) ids of the catalog.
Contributors == {"X", "Y"}

\* What get_artist_info finds for a contributor:
\* "full"         the artist search, the artist fetch and Wikipedia answer
\* "no_wikipedia" search and fetch answer, Wikipedia has no matching page
\*                (artist_wikipedia_summary and artist_wikipedia_url are None)
\* "no_match"     the artist search fails or returns no result
ArtistKinds == {"full", "no_wikipedia", "no_match"}

\* The lookups process_item issues beyond the primary release fetch.
Providers ==
    {"discogs_artist_search", "discogs_artist", "wikipedia", "apple_music",
     "spotify"}

\* The cover downloads create_markdown_file issues.
Covers == {"apple_music_artwork", "discogs_image", "missing_image"}

\* A non-empty string.
Text == [py |-> "str"]

\* The dictionary get_artist_info returns for a contributor it resolved.
ArtistInfo(artist_id, kind) ==
    [py |-> "dict",
     id |-> artist_id,
     artist_wikipedia_summary |-> IF kind = "full" THEN Text ELSE None,
     artist_wikipedia_url |-> IF kind = "full" THEN Text ELSE None]

\* An artist record as the editing UI posts it.
EditedArtist(artist_id) ==
    [py |-> "dict", id |-> artist_id, artist_wikipedia_summary |-> Text]

\* A narrative text (artist profile, summary, biography): its source, its
\* visible characters and the characters of markup it carries.
Narrative(src, chars, markup) ==
    [py |-> "str", src |-> src, chars |-> chars, markup |-> markup]

Narratives(src) ==
    {Narrative(src, c, m) : c \in {0, ShortLen, LongLen}, m \in {0, MarkupLen}}

\* len() of a text.
len(t) == t.chars + t.markup

\* tidy_text: tags, bracketed and parenthesised parts are removed.
tidy_text(t) == [t EXCEPT !.markup = 0]

\* Python truthiness of a str-or-None value.
TruthyText(t) == t # None /\ len(t) > 0

\* Marker of "the function raised".
Raised == [py |-> "raised"]

\* No merge function is being applied.
NoTexts ==
    [profile |-> Narrative("discogs", 0, 0),
     artist_wikipedia_summary |-> None,
     apple_music_bio |-> None]

\* create_artist_markdown_file's summary: the longer of the tidied Wikipedia
\* summary and the tidied Discogs profile; tidy_text(None) raises.
artist_page_summary(a) ==
    IF a.artist_wikipedia_summary = None THEN Raised
    ELSE LET profile == tidy_text(a.profile)
             wikipedia_summary == tidy_text(a.artist_wikipedia_summary)
         IN  IF len(wikipedia_summary) > len(profile)
             THEN wikipedia_summary ELSE profile

\* process_item's "Wikipedia Summary": the Apple Music artistBio when the
\* attributes carry one, else the Wikipedia summary.
record_summary(a) ==
    IF a.apple_music_bio # None THEN a.apple_music_bio
    ELSE a.artist_wikipedia_summary

\* get_best_artist_profile: Apple Music, then Discogs, then Wikipedia; the
\* text chosen is converted to markdown and cleaned.
get_best_artist_profile(a) ==
    IF TruthyText(a.apple_music_bio) THEN tidy_text(a.apple_music_bio)
    ELSE IF TruthyText(a.profile) THEN tidy_text(a.profile)
    ELSE IF TruthyText(a.artist_wikipedia_summary)
    THEN tidy_text(a.artist_wikipedia_summary)
    ELSE None

\* A candidate of an Apple Music search: the similarity ratio of its
\* lower-cased name to the lower-cased query, and whether the name contains
\* 'tribute', 'cover', 'karaoke', 'performed by' or 'in the style of'.
Candidates ==
    [py : {"dict"}, ratio : 1..MaxRatio, denylisted : BOOLEAN]

\* name.lower() == query.lower()
exact_match(r) == r.ratio = MaxRatio

\* max(results, key=ratio): the first of the candidates with the largest
\* ratio.
max_by_ratio(results) ==
    results[CHOOSE i \in 1..Len(results) :
                /\ \A j \in 1..Len(results) :
                      results[j].ratio <= results[i].ratio
                /\ \A j \in 1..(i - 1) : results[j].ratio < results[i].ratio]

\* utils.search_apple_music: denylisted candidates are filtered out, then
\* the first exact match is taken, else the most similar candidate.
search_apple_music(results) ==
    LET filtered_results == SelectSeq(results, LAMBDA r : ~r.denylisted)
        exact_matches == SelectSeq(filtered_results, exact_match)
    IN  IF Len(results) = 0 \/ Len(filtered_results) = 0 THEN None
        ELSE IF Len(exact_matches) > 0 THEN exact_matches[1]
        ELSE max_by_ratio(filtered_results)

\* discogs_scraper.get_apple_music_data, the search process_item uses: the
\* most similar of all candidates.
get_apple_music_data(results) ==
    IF Len(results) = 0 THEN None ELSE max_by_ratio(results)

\* Collections up to renaming of release ids: the first occurrences of the
\* ids appear in the order A, B, C.  Duplicates are kept: a Discogs
\* collection may hold several copies of one release.
IsCanonical(s) ==
    \A i \in 1..Len(s) :
        /\ s[i] = "B" => \E j \in 1..(i - 1) : s[j] = "A"
        /\ s[i] = "C" => \E j \in 1..(i - 1) : s[j] = "B"

Collections ==
    {s \in UNION {[1..n -> Releases] : n \in 0..MaxLen} : IsCanonical(s)}

Range(s) == {s[i] : i \in 1..Len(s)}

-----------------------------------------------------------------------------
VARIABLES
    releases,             \* rows of the releases table, in rowid order
    skip_file,            \* lines of skip_releases.txt
    index_file,           \* last_processed_index.txt: <<>> absent, <<n>> content
    initial_index_file,   \* the checkpoint file as the first run found it
    saved,                \* last data handed to save_release, per release id
    collection,           \* the remote collection, in walk order
    catalog,              \* what the providers answer, per release id
    failures_left,        \* attempts a transient condition still lasts
    pc,                   \* position of main
    index,                \* enumerate() position of the walk
    last_processed_index, \* checkpoint loaded at run start
    skip_releases,        \* skip set loaded at run start
    item_data,            \* item_data of the item in hand
    fetched,              \* walk positions whose release this run fetched
    looked_up,            \* walk positions whose release this run looked up
                          \* in the releases table
    artists,              \* rows of the artists table, in rowid order
    artist_of,            \* primary artist (contributor id) per release id
    artist_kind,          \* what get_artist_info finds, per contributor id
    spotify_token,        \* whether main obtained a Spotify token
    db_reliable,          \* FALSE: an operation on the SQLite file may raise
    db_failed_at,         \* walk positions at which an operation of the
                          \* DatabaseHandler failed
    processed_artists,    \* process_item.processed_artists
    artist_pages,         \* calls of create_artist_markdown_file this run,
                          \* per contributor id
    calls,                \* <<walk position, request>>: lookups and image
                          \* downloads of this run
    merge_in,             \* the artist texts a merge function is applied to
    merge_out,            \* the function applied and its result, or None
    processed_index,      \* rows of the processed_index table
    image_url_missing,    \* an artist image of the catalog has no resource_url
    download_attempts,    \* calls of download_image for the image in hand
    skip_reliable,        \* FALSE: a write to skip_releases.txt may fail
    search_results,       \* the candidates an Apple Music search returned
    best_match            \* the function applied and the candidate it chose

vars == <<releases, skip_file, index_file, initial_index_file, saved,
          collection, catalog, failures_left, pc, index,
          last_processed_index, skip_releases, item_data, fetched, looked_up,
          artists, artist_of, artist_kind, spotify_token, db_reliable,
          db_failed_at, processed_artists, artist_pages, calls, merge_in,
          merge_out, processed_index, image_url_missing, download_attempts,
          skip_reliable, search_results, best_match>>

store == <<releases, skip_file, index_file, saved, artists>>
remote == <<collection, catalog, initial_index_file, artist_of, artist_kind,
            spotify_token, db_reliable, merge_in, merge_out, processed_index,
            image_url_missing, skip_reliable, search_results, best_match>>
run == <<pc, index, last_processed_index, skip_releases, item_data, fetched,
         looked_up, db_failed_at, processed_artists, artist_pages, calls,
         download_attempts>>

-----------------------------------------------------------------------------
(* DatabaseHandler                                                         *)

\* Mutant of save_release: a plain INSERT with no conflict clause.
save_release_insert(table, release_id, data) ==
    Append(table, [release_id |-> release_id, data |-> json_dumps(data)])

\* INSERT OR REPLACE on the UNIQUE release_id column: the conflicting row is
\* deleted and the new row takes a fresh rowid (the end of the table).
save_release(table, release_id, data) ==
    Append(SelectSeq(table, LAMBDA row : row.release_id # release_id),
           [release_id |-> release_id, data |-> json_dumps(data)])

\* SELECT data ... WHERE release_id = ?; fetchone().
get_release(table, release_id) ==
    LET rows == SelectSeq(table, LAMBDA row : row.release_id = release_id)
    IN  IF Len(rows) > 0 THEN json_loads(rows[1].data) ELSE None

\* get_all_releases: the release ids the table lists.
get_all_releases(table) == {table[i].release_id : i \in 1..Len(table)}

\* save_artist: INSERT OR REPLACE on the UNIQUE artist_id column.
save_artist(table, artist_id, data) ==
    Append(SelectSeq(table, LAMBDA row : row.artist_id # artist_id),
           [artist_id |-> artist_id, data |-> json_dumps(data)])

\* get_artist: SELECT data ... WHERE artist_id = ?; fetchone().
get_artist(table, artist_id) ==
    LET rows == SelectSeq(table, LAMBDA row : row.artist_id = artist_id)
    IN  IF Len(rows) > 0 THEN json_loads(rows[1].data) ELSE None

\* save_last_processed_index: INSERT OR REPLACE of the row with id 1.
save_last_processed_index(table, i) == <<i>>

\* get_last_processed_index: the row's last_index, 0 when the table is empty.
get_last_processed_index(table) == IF Len(table) = 0 THEN 0 ELSE table[1]

\* Whether an operation on the SQLite file may succeed (TRUE) or raise
\* sqlite3.Error (FALSE).
StoreOutcomes == IF db_reliable THEN {TRUE} ELSE BOOLEAN

\* Whether a write to the skip file may succeed (TRUE) or fail (FALSE).
SkipOutcomes == IF skip_reliable THEN {TRUE} ELSE BOOLEAN

\* Mutant of add_skip_release_raises: the failure of the write is raised.
add_skip_release_propagates(write_ok) == ~write_ok

\* Whether add_skip_release raises: its except clause logs the failure of
\* the write and returns.
add_skip_release_raises(write_ok) == FALSE

\* get_skip_releases: the set of ids on the lines of the skip file.
get_skip_releases(file) == Range(file)

\* Mutant of add_skip_release: the line is not written.
add_skip_release_dropped(file, release_id) == file

\* add_skip_release: append one line.
add_skip_release(file, release_id) == Append(file, release_id)

\* The checkpoint main reads: 0 when the file is absent.
read_index_file(file) == IF Len(file) = 0 THEN 0 ELSE file[1]

\* Mutant of checkpoint_value: the position of the item that comes next.
checkpoint_value_next(i) == i + 1

\* Mutant of checkpoint_value: the position counted from where the run
\* resumed, as the progress bar counts it.
checkpoint_value_relative(i) == i - last_processed_index

\* The value main writes to the checkpoint file after an item.
checkpoint_value(i) == i

\* Mutant of already_processed: the position at the checkpoint is passed
\* over too.
already_processed_inclusive(i, last) == i <= last

\* Mutant of already_processed: the position before the checkpoint is
\* attempted again.
already_processed_short(i, last) == i < last - 1

\* main's fast-forward test.
already_processed(i, last) == i < last

-----------------------------------------------------------------------------
(* Providers and renderer, as process_item and main see them               *)

\* Whether the calls process_item makes inside its try block raise for a
\* release: a transient condition that still lasts, a payload lacking a
\* field, or artist_info being None when "Wikipedia Summary" is read
\* (get_artist_info returns None for the "Various" marker).
fetch_raises(kind, left) ==
    \/ kind = "shape"
    \/ kind = "various"
    \/ kind \in TransientKinds /\ left > 0

\* The part of fetch_raises that is raised by reading the release itself,
\* before any enrichment lookup is made.
primary_fetch_raises(kind, left) ==
    \/ kind = "shape"
    \/ kind \in TransientKinds /\ left > 0

\* get_artist_info: None for the "Various" marker (no lookup is made) and for
\* a search that fails or finds nothing, else the artist's dictionary.
get_artist_info(release_id) ==
    IF \/ catalog[release_id] = "various"
       \/ artist_kind[artist_of[release_id]] = "no_match"
    THEN None
    ELSE ArtistInfo(artist_of[release_id], artist_kind[artist_of[release_id]])

\* The lookups get_artist_info issues.
artist_lookups(release_id) ==
    IF catalog[release_id] = "various" THEN {}
    ELSE IF artist_kind[artist_of[release_id]] = "no_match"
    THEN {"discogs_artist_search"}
    ELSE {"discogs_artist_search", "discogs_artist", "wikipedia"}

\* The Apple Music album search, guarded by
\* '"various" not in artist_name.lower()'.
apple_lookups(release_id) ==
    IF catalog[release_id] = "various" THEN {} ELSE {"apple_music"}

\* get_spotify_id: a search when main holds a Spotify token.
spotify_lookups == IF spotify_token THEN {"spotify"} ELSE {}

\* create_artist_markdown_file raises AttributeError in tidy_text(None)
\* when the artist's Wikipedia summary is None.
create_artist_markdown_file_raises(artist_data) ==
    artist_data.artist_wikipedia_summary = None

\* create_markdown_file raises TypeError on '"artwork" in None' when the
\* record carries no Apple Music block.
create_markdown_file_raises(data) ==
    data.apple_music_attributes = None

\* The image create_markdown_file downloads as the item's cover: the Apple
\* Music artwork when the record has one, else the record's own cover, else
\* the missing-cover image.
chosen_cover(data) ==
    IF "artwork" \in Keys(data.apple_music_attributes)
    THEN "apple_music_artwork"
    ELSE IF data.album_cover_url # None THEN "discogs_image"
    ELSE "missing_image"

\* download_image raises for an artist's image: the first entry of the
\* artist's images has no resource_url, img.get('resource_url') is None and
\* '"mzstatic.com" in url' raises TypeError.
download_image_raises(artist_data) == image_url_missing

\* The attributes of the album get_apple_music_data found, None when it
\* found none.
apple_music_data(kind) ==
    IF kind = "bare" THEN None
    ELSE IF kind = "artist_bio" THEN AppleAttrsBio
    ELSE AppleAttrs

\* get_spotify_id: the id of the first album found, None without a token.
get_spotify_id == IF spotify_token THEN SpotifyId ELSE None

\* The dictionary process_item builds for a release that resolved: the
\* catalog's fields, None for the cover and the images when the catalog lists
\* none, the Spotify id, the artist's dictionary with its Wikipedia summary
\* replaced by the Apple Music artistBio when there is one, and the Apple
\* Music attributes.
ItemData(release_id, kind) ==
    LET apple_music_attributes == apple_music_data(kind)
        found == get_artist_info(release_id)
        artist_info ==
            IF "artistBio" \in Keys(apple_music_attributes)
            THEN [found EXCEPT !.artist_wikipedia_summary =
                                   apple_music_attributes.artistBio]
            ELSE found
    IN  [py |-> "dict",
         release_id |-> release_id,
         artist_name |-> artist_of[release_id],
         album_title |-> "catalog",
         slug |-> "catalog",
         date_added |-> "catalog",
         genre |-> "catalog",
         style |-> "catalog",
         label |-> "catalog",
         catalog_number |-> "catalog",
         release_formats |-> "catalog",
         release_date |-> "catalog",
         country |-> "catalog",
         rating |-> "catalog",
         track_list |-> "catalog",
         album_cover_url |-> IF kind = "no_images" THEN None ELSE DiscogsCover,
         all_images_urls |->
             IF kind = "no_images" THEN None ELSE DiscogsImages,
         videos |-> "catalog",
         release_url |-> "catalog",
         notes |-> "catalog",
         credits |-> "catalog",
         spotify_id |-> get_spotify_id,
         artist_info |-> artist_info,
         wikipedia_summary |-> artist_info.artist_wikipedia_summary,
         wikipedia_url |-> artist_info.artist_wikipedia_url,
         apple_music_attributes |-> apple_music_attributes]

\* Marker of "save_release was never called for this id".
Unsaved == [py |-> "unsaved"]

\* The release at the walk position in hand.
item == collection[index + 1]

-----------------------------------------------------------------------------
\* A store whose checkpoint table was never written, a skip file that can
\* be written, artist images that carry their URL, and no Apple Music search
\* under way.
Friendly ==
    /\ processed_index = <<>>
    /\ image_url_missing = FALSE
    /\ skip_reliable = TRUE
    /\ search_results = <<>>
    /\ best_match = None

\* The state before the first run, with every contributor resolving, a
\* Spotify token and a store whose operations succeed.
Init ==
    /\ releases = <<>>
    /\ skip_file = <<>>
    /\ collection \in Collections
    /\ index_file \in {<<>>} \cup {<<n>> : n \in 0..MaxLen}
    /\ initial_index_file = index_file
    /\ saved = [r \in Releases |-> Unsaved]
    /\ catalog \in {c \in [Releases -> Kinds] :
                      \A r \in Releases \ Range(collection) : c[r] = "ok"}
    /\ failures_left = [r \in Releases |->
                          IF catalog[r] \in TransientKinds
                          THEN TransientFailures ELSE 0]
    /\ pc = "idle"
    /\ index = 0
    /\ last_processed_index = 0
    /\ skip_releases = {}
    /\ item_data = None
    /\ fetched = {}
    /\ looked_up = {}
    /\ artists = <<>>
    /\ artist_of = [r \in Releases |-> "X"]
    /\ artist_kind = [a \in Contributors |-> "full"]
    /\ spotify_token = TRUE
    /\ db_reliable = TRUE
    /\ db_failed_at = {}
    /\ processed_artists = {}
    /\ artist_pages = [a \in Contributors |-> 0]
    /\ calls = {}
    /\ download_attempts = 0
    /\ merge_in = NoTexts
    /\ merge_out = None
    /\ Friendly

\* main, up to the loop: load the skip set and the checkpoint.
LoadRun ==
    /\ skip_releases' = get_skip_releases(skip_file)
    /\ last_processed_index' = read_index_file(index_file)
    /\ index' = 0
    /\ item_data' = None
    /\ fetched' = {}
    /\ looked_up' = {}
    /\ db_failed_at' = {}
    /\ processed_artists' = {}
    /\ artist_pages' = [a \in Contributors |-> 0]
    /\ calls' = {}
    /\ download_attempts' = 0
    /\ pc' = "iter"
    /\ UNCHANGED <<store, remote, failures_left>>

\* The process ends without completing the walk: its memory is gone, the
\* store is as the last write left it.
Exit ==
    /\ pc' = "idle"
    /\ index' = 0
    /\ last_processed_index' = 0
    /\ skip_releases' = {}
    /\ item_data' = None
    /\ fetched' = {}
    /\ looked_up' = {}
    /\ db_failed_at' = {}
    /\ processed_artists' = {}
    /\ artist_pages' = [a \in Contributors |-> 0]
    /\ calls' = {}
    /\ download_attempts' = 0
    /\ UNCHANGED <<store, remote, failures_left>>

\* A first or resumed invocation of main.
Start ==
    /\ pc = "idle"
    /\ LoadRun

\* An invocation of main after a run that completed.
Rerun ==
    /\ pc = "done"
    /\ LoadRun

\* The collection iterator fails to retrieve the next page: the exception
\* leaves the for statement, which no try block of main encloses.
PageFetchFails ==
    /\ pc = "iter"
    /\ index < Len(collection)
    /\ index > 0 /\ index % PageSize = 0
    /\ Exit

\* index < last_processed_index: continue.
FastForward ==
    /\ pc = "iter"
    /\ index < Len(collection)
    /\ already_processed(index, last_processed_index)
    /\ index' = index + 1
    /\ UNCHANGED <<store, remote, failures_left, pc, last_processed_index,
                   skip_releases, item_data, fetched, looked_up, db_failed_at,
                   processed_artists, artist_pages, calls, download_attempts>>

\* item.release.id in skip_releases: continue.
SkipListed ==
    /\ pc = "iter"
    /\ index < Len(collection)
    /\ ~already_processed(index, last_processed_index)
    /\ item \in skip_releases
    /\ index' = index + 1
    /\ UNCHANGED <<store, remote, failures_left, pc, last_processed_index,
                   skip_releases, item_data, fetched, looked_up, db_failed_at,
                   processed_artists, artist_pages, calls, download_attempts>>

\* A store operation raised outside process_item's try block: the exception
\* reaches main's except clause, which continues with the next item.
StoreReadRaises ==
    /\ db_failed_at' = db_failed_at \cup {index}
    /\ index' = index + 1
    /\ pc' = "iter"
    /\ item_data' = None
    /\ UNCHANGED <<store, remote, failures_left, last_processed_index,
                   skip_releases, fetched, looked_up, processed_artists,
                   artist_pages, calls, download_attempts>>

\* main's cache check: cached data is used as item_data, else process_item.
CacheCheck ==
    /\ pc = "iter"
    /\ index < Len(collection)
    /\ ~already_processed(index, last_processed_index)
    /\ item \notin skip_releases
    /\ \E read_ok \in StoreOutcomes :
          IF ~read_ok
          THEN StoreReadRaises
          ELSE /\ LET cached_data == get_release(releases, item)
                  IN  IF Truthy(cached_data)
                      THEN item_data' = cached_data /\ pc' = "render"
                      ELSE item_data' = None /\ pc' = "process"
               /\ looked_up' = looked_up \cup {index}
               /\ UNCHANGED <<store, remote, failures_left, index,
                              last_processed_index, skip_releases, fetched,
                              db_failed_at, processed_artists, artist_pages,
                              calls, download_attempts>>

\* process_item's except clause: add the id to the skip file, return None.
\* An exception raised inside the clause would reach main's except clause,
\* which continues with the next item.
MarkSkipped(write_ok) ==
    /\ skip_file' = IF write_ok THEN add_skip_release(skip_file, item)
                    ELSE skip_file
    /\ item_data' = None
    /\ IF add_skip_release_raises(write_ok)
       THEN index' = index + 1 /\ pc' = "iter"
       ELSE index' = index /\ pc' = "render"
    /\ UNCHANGED <<releases, saved, index_file, artists>>

\* process_item's try block for a release that is not cached: read the
\* release, look up Apple Music and the artist, create the artist page,
\* look up Spotify, build item_data and save it.
FetchAndStore(save_ok, write_ok) ==
    LET artist_info == get_artist_info(item)
        page_invoked == /\ Truthy(artist_info)
                        /\ artist_info.id \notin processed_artists
        page_raises == /\ page_invoked
                       /\ create_artist_markdown_file_raises(artist_info)
        data == ItemData(item, catalog[item])
    IN  /\ fetched' = fetched \cup {index}
        /\ failures_left' =
               [failures_left EXCEPT ![item] = IF @ > 0 THEN @ - 1 ELSE 0]
        /\ IF primary_fetch_raises(catalog[item], failures_left[item])
           THEN /\ MarkSkipped(write_ok)
                /\ db_failed_at' = IF write_ok THEN db_failed_at
                                   ELSE db_failed_at \cup {index}
                /\ UNCHANGED <<processed_artists, artist_pages, calls>>
           ELSE /\ artist_pages' =
                       IF page_invoked
                       THEN [artist_pages EXCEPT ![artist_info.id] = @ + 1]
                       ELSE artist_pages
                /\ processed_artists' =
                       IF page_invoked /\ ~page_raises
                       THEN processed_artists \cup {artist_info.id}
                       ELSE processed_artists
                /\ calls' = calls \cup
                       {<<index, p>> : p \in
                           apple_lookups(item) \cup artist_lookups(item) \cup
                           (IF page_raises THEN {} ELSE spotify_lookups)}
                /\ IF page_raises \/ artist_info = None
                   THEN /\ MarkSkipped(write_ok)
                        /\ db_failed_at' = IF write_ok THEN db_failed_at
                                           ELSE db_failed_at \cup {index}
                   ELSE IF ~save_ok
                   THEN /\ MarkSkipped(write_ok)
                        /\ db_failed_at' = db_failed_at \cup {index}
                   ELSE /\ item_data' = data
                        /\ index' = index
                        /\ pc' = "render"
                        /\ releases' = save_release(releases, item, data)
                        /\ saved' = [saved EXCEPT ![item] = data]
                        /\ UNCHANGED <<skip_file, index_file, artists,
                                       db_failed_at>>

\* process_item has reached create_artist_markdown_file for the item in
\* hand, and the download_image call for the artist's image raises.
ArtistImagePending ==
    /\ pc = "process"
    /\ ~Truthy(get_release(releases, item))
    /\ ~primary_fetch_raises(catalog[item], failures_left[item])
    /\ Truthy(get_artist_info(item))
    /\ get_artist_info(item).id \notin processed_artists
    /\ download_image_raises(get_artist_info(item))

\* @retry(wait=wait_fixed(60)) on download_image: the call raised, the
\* decorator waits and calls it again, whatever the exception was.
DownloadRetry ==
    /\ ArtistImagePending
    /\ download_attempts < MaxAttempts
    /\ download_attempts' = download_attempts + 1
    /\ UNCHANGED <<store, remote, failures_left, pc, index,
                   last_processed_index, skip_releases, item_data, fetched,
                   looked_up, db_failed_at, processed_artists, artist_pages,
                   calls>>

\* process_item: its own cache check, then fetch, enrich and save, or on any
\* exception add the id to the skip file and return None.
ProcessItem ==
    /\ pc = "process"
    /\ \E read_ok \in StoreOutcomes, save_ok \in StoreOutcomes,
          write_ok \in SkipOutcomes :
          IF ~read_ok
          THEN StoreReadRaises
          ELSE /\ LET cached_data == get_release(releases, item)
                  IN  IF Truthy(cached_data)
                      THEN /\ item_data' = cached_data
                           /\ index' = index
                           /\ pc' = "render"
                           /\ UNCHANGED <<store, failures_left, fetched,
                                          db_failed_at, processed_artists,
                                          artist_pages, calls>>
                      ELSE /\ ~ArtistImagePending
                           /\ FetchAndStore(save_ok, write_ok)
               /\ looked_up' = looked_up \cup {index}
               /\ UNCHANGED <<remote, last_processed_index, skip_releases,
                              download_attempts>>

\* "if item_data: create_markdown_file(item_data)".  An exception reaches
\* main's except clause, which continues with the next item.
Render ==
    /\ pc = "render"
    /\ IF Truthy(item_data) /\ create_markdown_file_raises(item_data)
       THEN index' = index + 1 /\ pc' = "iter"
       ELSE index' = index /\ pc' = "checkpoint"
    /\ calls' = IF Truthy(item_data) /\ ~create_markdown_file_raises(item_data)
                THEN calls \cup {<<index, chosen_cover(item_data)>>}
                ELSE calls
    /\ UNCHANGED <<store, remote, failures_left, last_processed_index,
                   skip_releases, item_data, fetched, looked_up, db_failed_at,
                   processed_artists, artist_pages, download_attempts>>

\* "Update last processed index".
WriteCheckpoint ==
    /\ pc = "checkpoint"
    /\ index_file' = <<checkpoint_value(index)>>
    /\ index' = index + 1
    /\ pc' = "iter"
    /\ UNCHANGED <<releases, skip_file, saved, artists, remote, failures_left,
                   last_processed_index, skip_releases, item_data, fetched,
                   looked_up, db_failed_at, processed_artists, artist_pages,
                   calls, download_attempts>>

\* The walk is exhausted: "Zero out the last processed index file".
Complete ==
    /\ pc = "iter"
    /\ index = Len(collection)
    /\ index_file' = <<0>>
    /\ pc' = "done"
    /\ UNCHANGED <<releases, skip_file, saved, artists, remote, failures_left,
                   index, last_processed_index, skip_releases, item_data,
                   fetched, looked_up, db_failed_at, processed_artists,
                   artist_pages, calls, download_attempts>>

\* The operator interrupts the process between two items.
Interrupt ==
    /\ pc = "iter"
    /\ Exit

\* The process is killed while an item is in hand.
Crash ==
    /\ pc \in {"process", "render", "checkpoint"}
    /\ Exit

\* app.py release_detail / new_release POST, collection_editor update.
EditorSave ==
    \E r \in Range(collection) :
        /\ releases' = save_release(releases, r, EditedData(r))
        /\ saved' = [saved EXCEPT ![r] = EditedData(r)]
        /\ UNCHANGED <<skip_file, index_file, artists, remote, failures_left,
                       run>>

\* app.py delete_release: the record is overwritten with an empty object.
EditorDelete ==
    \E r \in Range(collection) :
        /\ releases' = save_release(releases, r, EmptyDict)
        /\ saved' = [saved EXCEPT ![r] = EmptyDict]
        /\ UNCHANGED <<skip_file, index_file, artists, remote, failures_left,
                       run>>

\* app.py artist_detail POST: the operator saves an artist record.
ArtistEditorSave ==
    \E a \in {artist_of[r] : r \in Range(collection)} :
        /\ artists' = save_artist(artists, a, EditedArtist(a))
        /\ UNCHANGED <<releases, skip_file, index_file, saved, remote,
                       failures_left, run>>

Walk ==
    \/ FastForward
    \/ SkipListed
    \/ CacheCheck
    \/ ProcessItem
    \/ Render
    \/ WriteCheckpoint
    \/ Complete

Next ==
    \/ Start
    \/ Rerun
    \/ Walk
    \/ PageFetchFails
    \/ Interrupt
    \/ Crash

Spec == Init /\ [][Next]_vars

\* One run of the pipeline alone, interrupted between items and resumed.
NextResume ==
    \/ Start
    \/ Walk
    \/ Interrupt

SpecResume == Init /\ [][NextResume]_vars

\* The pipeline with the editing UI writing to the same store.
InitEditor ==
    /\ Init
    /\ index_file \in {<<>>, <<1>>}
    /\ Len(collection) < MaxLen
    /\ \A r \in Releases : catalog[r] \in {"ok", "bare", "shape"}

NextEditor ==
    \/ Start
    \/ Rerun
    \/ Walk
    \/ EditorSave
    \/ EditorDelete

SpecEditor == InitEditor /\ [][NextEditor]_vars

\* The state of the run's own variables before the first run.
InitRun ==
    /\ pc = "idle"
    /\ index = 0
    /\ last_processed_index = 0
    /\ skip_releases = {}
    /\ item_data = None
    /\ fetched = {}
    /\ looked_up = {}
    /\ db_failed_at = {}
    /\ processed_artists = {}
    /\ artist_pages = [a \in Contributors |-> 0]
    /\ calls = {}
    /\ download_attempts = 0

\* Releases of the collection whose primary artist is a contributor.
Credited == {r \in Range(collection) : catalog[r] # "various"}

\* The pipeline over a catalog whose enrichment providers may have no
\* answer: any assignment of contributors to releases and of lookup results
\* to contributors (up to renaming of contributor ids), with or without a
\* Spotify token.  The primary fetch of every release answers.
InitEnrich ==
    /\ releases = <<>>
    /\ skip_file = <<>>
    /\ artists = <<>>
    /\ collection \in Collections
    /\ index_file = <<>>
    /\ initial_index_file = index_file
    /\ saved = [r \in Releases |-> Unsaved]
    /\ catalog \in {c \in [Releases -> {"ok", "bare", "various"}] :
                      \A r \in Releases \ Range(collection) : c[r] = "ok"}
    /\ failures_left = [r \in Releases |-> 0]
    /\ artist_of \in {f \in [Releases -> Contributors] :
                        /\ \A r \in Releases \ Credited : f[r] = "X"
                        /\ \A r \in Credited :
                              f[r] = "Y" => \E q \in Credited : f[q] = "X"}
    /\ artist_kind \in {k \in [Contributors -> ArtistKinds] :
                          \A a \in Contributors :
                              (\A r \in Credited : artist_of[r] # a) =>
                                  k[a] = "full"}
    /\ spotify_token \in BOOLEAN
    /\ db_reliable = TRUE
    /\ merge_in = NoTexts
    /\ merge_out = None
    /\ Friendly
    /\ InitRun

NextEnrich ==
    \/ Start
    \/ Rerun
    \/ Walk
    \/ PageFetchFails
    \/ ArtistEditorSave

SpecEnrich == InitEnrich /\ [][NextEnrich]_vars

\* The pipeline over a store whose operations may raise.
InitStoreFault ==
    /\ releases = <<>>
    /\ skip_file = <<>>
    /\ artists = <<>>
    /\ collection \in Collections
    /\ index_file \in {<<>>, <<1>>}
    /\ initial_index_file = index_file
    /\ saved = [r \in Releases |-> Unsaved]
    /\ catalog \in {c \in [Releases -> {"ok", "bare", "shape"}] :
                      \A r \in Releases \ Range(collection) : c[r] = "ok"}
    /\ failures_left = [r \in Releases |-> 0]
    /\ artist_of = [r \in Releases |-> "X"]
    /\ artist_kind = [a \in Contributors |-> "full"]
    /\ spotify_token = TRUE
    /\ db_reliable = FALSE
    /\ merge_in = NoTexts
    /\ merge_out = None
    /\ Friendly
    /\ InitRun

NextStoreFault ==
    \/ Start
    \/ Rerun
    \/ Walk

SpecStoreFault == InitStoreFault /\ [][NextStoreFault]_vars

\* The pipeline over releases that differ in what the providers supply:
\* with or without an Apple Music block, images, an artistBio, a Spotify
\* token, or a payload that lacks a field.
InitRecord ==
    /\ releases = <<>>
    /\ skip_file = <<>>
    /\ artists = <<>>
    /\ collection \in Collections
    /\ index_file \in {<<>>, <<1>>}
    /\ initial_index_file = index_file
    /\ saved = [r \in Releases |-> Unsaved]
    /\ catalog \in {c \in [Releases -> RecordKinds \cup {"shape"}] :
                      \A r \in Releases \ Range(collection) : c[r] = "ok"}
    /\ failures_left = [r \in Releases |-> 0]
    /\ artist_of = [r \in Releases |-> "X"]
    /\ artist_kind = [a \in Contributors |-> "full"]
    /\ spotify_token \in BOOLEAN
    /\ db_reliable = TRUE
    /\ merge_in = NoTexts
    /\ merge_out = None
    /\ Friendly
    /\ InitRun

NextRecord ==
    \/ Start
    \/ Rerun
    \/ Walk

SpecRecord == InitRecord /\ [][NextRecord]_vars

\* The pipeline over a skip file whose writes may fail.
InitSkipFault ==
    /\ releases = <<>>
    /\ skip_file = <<>>
    /\ artists = <<>>
    /\ collection \in Collections
    /\ index_file \in {<<>>, <<1>>}
    /\ initial_index_file = index_file
    /\ saved = [r \in Releases |-> Unsaved]
    /\ catalog \in {c \in [Releases -> {"ok", "shape", "unavailable"}] :
                      \A r \in Releases \ Range(collection) : c[r] = "ok"}
    /\ failures_left = [r \in Releases |->
                          IF catalog[r] \in TransientKinds
                          THEN TransientFailures ELSE 0]
    /\ artist_of = [r \in Releases |-> "X"]
    /\ artist_kind = [a \in Contributors |-> "full"]
    /\ spotify_token = TRUE
    /\ db_reliable = TRUE
    /\ merge_in = NoTexts
    /\ merge_out = None
    /\ processed_index = <<>>
    /\ image_url_missing = FALSE
    /\ skip_reliable = FALSE
    /\ search_results = <<>>
    /\ best_match = None
    /\ InitRun

NextSkipFault ==
    \/ Start
    \/ Rerun
    \/ Walk

SpecSkipFault == InitSkipFault /\ [][NextSkipFault]_vars

\* One run and its restarts over providers that may throttle and a catalog
\* whose artist images may lack their URL; every step that can be taken is
\* eventually taken.
InitTerminate ==
    /\ releases = <<>>
    /\ skip_file = <<>>
    /\ artists = <<>>
    /\ collection \in Collections
    /\ index_file \in {<<>>, <<1>>}
    /\ initial_index_file = index_file
    /\ saved = [r \in Releases |-> Unsaved]
    /\ catalog \in {c \in [Releases -> {"ok", "bare", "http429"}] :
                      \A r \in Releases \ Range(collection) : c[r] = "ok"}
    /\ failures_left = [r \in Releases |->
                          IF catalog[r] \in TransientKinds
                          THEN TransientFailures ELSE 0]
    /\ artist_of = [r \in Releases |-> "X"]
    /\ artist_kind = [a \in Contributors |-> "full"]
    /\ spotify_token = TRUE
    /\ db_reliable = TRUE
    /\ merge_in = NoTexts
    /\ merge_out = None
    /\ processed_index = <<>>
    /\ image_url_missing \in BOOLEAN
    /\ skip_reliable = TRUE
    /\ search_results = <<>>
    /\ best_match = None
    /\ InitRun

NextTerminate ==
    \/ Start
    \/ Walk
    \/ PageFetchFails
    \/ DownloadRetry

SpecTerminate ==
    InitTerminate /\ [][NextTerminate]_vars /\ WF_vars(NextTerminate)

\* The merge functions applied to any texts of an artist.
InitMerge ==
    /\ releases = <<>>
    /\ skip_file = <<>>
    /\ artists = <<>>
    /\ collection = <<>>
    /\ index_file = <<>>
    /\ initial_index_file = index_file
    /\ saved = [r \in Releases |-> Unsaved]
    /\ catalog = [r \in Releases |-> "ok"]
    /\ failures_left = [r \in Releases |-> 0]
    /\ artist_of = [r \in Releases |-> "X"]
    /\ artist_kind = [a \in Contributors |-> "full"]
    /\ spotify_token = TRUE
    /\ db_reliable = TRUE
    /\ merge_in \in [profile : Narratives("discogs"),
                     artist_wikipedia_summary :
                         {None} \cup Narratives("wikipedia"),
                     apple_music_bio : {None} \cup Narratives("apple_music")]
    /\ merge_out = None
    /\ Friendly
    /\ InitRun

\* What applying a merge function leaves alone.
MergeFrame ==
    UNCHANGED <<releases, skip_file, index_file, initial_index_file, saved,
                collection, catalog, failures_left, artists, artist_of,
                artist_kind, spotify_token, db_reliable, merge_in, run,
                processed_index, image_url_missing, skip_reliable,
                search_results, best_match>>

\* create_artist_markdown_file chooses the artist page's profile.
MergeArtistPage ==
    /\ merge_out = None
    /\ merge_out' = [by |-> "create_artist_markdown_file",
                     value |-> artist_page_summary(merge_in)]
    /\ MergeFrame

\* process_item chooses the record's "Wikipedia Summary".
MergeRecordSummary ==
    /\ merge_out = None
    /\ merge_out' = [by |-> "process_item",
                     value |-> record_summary(merge_in)]
    /\ MergeFrame

\* generate_artist_page chooses the page's profile.
MergeBestProfile ==
    /\ merge_out = None
    /\ merge_out' = [by |-> "get_best_artist_profile",
                     value |-> get_best_artist_profile(merge_in)]
    /\ MergeFrame

NextMerge ==
    \/ MergeArtistPage
    \/ MergeRecordSummary
    \/ MergeBestProfile

SpecMerge == InitMerge /\ [][NextMerge]_vars

\* The Apple Music search functions applied to any list of candidates.
InitSearch ==
    /\ releases = <<>>
    /\ skip_file = <<>>
    /\ artists = <<>>
    /\ collection = <<>>
    /\ index_file = <<>>
    /\ initial_index_file = index_file
    /\ saved = [r \in Releases |-> Unsaved]
    /\ catalog = [r \in Releases |-> "ok"]
    /\ failures_left = [r \in Releases |-> 0]
    /\ artist_of = [r \in Releases |-> "X"]
    /\ artist_kind = [a \in Contributors |-> "full"]
    /\ spotify_token = TRUE
    /\ db_reliable = TRUE
    /\ merge_in = NoTexts
    /\ merge_out = None
    /\ processed_index = <<>>
    /\ image_url_missing = FALSE
    /\ skip_reliable = TRUE
    /\ search_results \in
           UNION {[1..n -> Candidates] : n \in 0..MaxCandidates}
    /\ best_match = None
    /\ InitRun

\* What choosing a candidate leaves alone.
SearchFrame ==
    UNCHANGED <<releases, skip_file, index_file, initial_index_file, saved,
                collection, catalog, failures_left, artists, artist_of,
                artist_kind, spotify_token, db_reliable, merge_in, merge_out,
                run, processed_index, image_url_missing, skip_reliable,
                search_results>>

\* migrate_artists_from_releases searches Apple Music for an artist.
SearchAppleMusic ==
    /\ best_match = None
    /\ best_match' = [by |-> "search_apple_music",
                      value |-> search_apple_music(search_results)]
    /\ SearchFrame

\* process_item searches Apple Music for an album.
GetAppleMusicData ==
    /\ best_match = None
    /\ best_match' = [by |-> "get_apple_music_data",
                      value |-> get_apple_music_data(search_results)]
    /\ SearchFrame

NextSearch ==
    \/ SearchAppleMusic
    \/ GetAppleMusicData

SpecSearch == InitSearch /\ [][NextSearch]_vars

-----------------------------------------------------------------------------
(* Properties                                                              *)

RunPcs == {"iter", "process", "render", "checkpoint"}

\* The checkpoint as a run would load it.
Checkpoint == read_index_file(index_file)

\* A step of main that leaves the item at the current position behind,
\* having attempted it (the position is not fast-forwarded).
FinishesAttempt ==
    /\ pc \in RunPcs
    /\ index' = index + 1
    /\ ~(index < last_processed_index)

\* C1: whenever main leaves an attempted item at position p behind (stored,
\* failed and skipped, cached, skip-listed, or an error was raised), the
\* checkpoint file holds p.
C1_CheckpointAfterEveryAttempt ==
    [][FinishesAttempt => index_file' = <<index>>]_vars

\* The store one uninterrupted run leaves behind: the walk of positions
\* i, i+1, ... from the initial checkpoint over an initially empty store,
\* with the skip set as loaded at its start (empty).
RECURSIVE UninterruptedWalk(_, _, _, _)
UninterruptedWalk(i, table, file, left) ==
    IF i >= Len(collection)
    THEN [releases |-> table, skip |-> Range(file)]
    ELSE LET r == collection[i + 1]
             decremented == [left EXCEPT ![r] = IF @ > 0 THEN @ - 1 ELSE 0]
         IN  IF \/ i < read_index_file(initial_index_file)
                \/ get_release(table, r) \notin {None, EmptyDict}
             THEN UninterruptedWalk(i + 1, table, file, left)
             ELSE IF fetch_raises(catalog[r], left[r])
             THEN UninterruptedWalk(i + 1, table, Append(file, r),
                                    decremented)
             ELSE UninterruptedWalk(i + 1,
                      save_release(table, r, ItemData(r, catalog[r])),
                      file, decremented)

UninterruptedResult ==
    UninterruptedWalk(0, <<>>, <<>>,
        [r \in Releases |-> IF catalog[r] \in TransientKinds
                            THEN TransientFailures ELSE 0])

\* Every release's provider response is the same on every attempt.
FixedResponses == \A r \in Releases : catalog[r] \notin TransientKinds

C2_AnyDeterministicResponses ==
    pc = "done" =>
        /\ releases = UninterruptedResult.releases
        /\ get_skip_releases(skip_file) = UninterruptedResult.skip

\* C3: while a release id is on the skip file, no attempt to process it
\* fetches from a provider or writes the records table.
C3_SkipSetShortCircuits ==
    [][(pc = "process" /\ item \in get_skip_releases(skip_file)) =>
           (fetched' \subseteq fetched /\ releases' = releases)]_vars

\* The [A, B, C] walk from a zero checkpoint in which A and B resolve.
WalkABC ==
    /\ collection = <<"A", "B", "C">>
    /\ read_index_file(initial_index_file) = 0
    /\ catalog["A"] \in {"ok", "bare"}

\* C4: a release whose primary fetch fails unrecoverably is put on the skip
\* file and stores no record, the checkpoint then reaches its position, and
\* the walk goes on; the walk [A, B, C] with C failing ends with records
\* for A and B only and skip set {C}.
C4_PermanentFailureIsolated ==
    /\ \A p \in fetched :
          catalog[collection[p + 1]] = "shape" =>
              /\ collection[p + 1] \in get_skip_releases(skip_file)
              /\ collection[p + 1] \notin get_all_releases(releases)
    /\ (/\ pc = "iter"
        /\ (index - 1) \in fetched
        /\ catalog[collection[index]] = "shape") => index_file = <<index - 1>>
    /\ pc \in RunPcs => ENABLED Walk
    /\ pc = "done" =>
          \A p \in 0..(Len(collection) - 1) :
              (/\ p >= last_processed_index
               /\ collection[p + 1] \notin skip_releases) => p \in looked_up
    /\ (/\ pc = "done"
        /\ WalkABC
        /\ catalog["B"] \in {"ok", "bare"}
        /\ catalog["C"] = "shape") =>
            /\ get_all_releases(releases) = {"A", "B"}
            /\ get_skip_releases(skip_file) = {"C"}

\* C4 witness: the run that fetched C and failed on it has completed the
\* walk [A, B, C].
C4_Witness ==
    /\ pc = "done"
    /\ WalkABC
    /\ catalog["C"] = "shape"
    /\ 2 \in fetched
    /\ get_all_releases(releases) = {"A", "B"}
    /\ get_skip_releases(skip_file) = {"C"}

\* C5: a transient failure is retried; the walk [A, B, C] in which B fails
\* on its first two attempts and answers on the third ends with records for
\* A, B and C and an empty skip set, and a release is on the skip file for
\* a transient failure only when the failing attempts were all made.
C5_TransientFailureRetried ==
    /\ (/\ pc = "done"
        /\ WalkABC
        /\ catalog["B"] = "unavailable"
        /\ catalog["C"] \in {"ok", "bare"}) =>
            /\ get_all_releases(releases) = {"A", "B", "C"}
            /\ get_skip_releases(skip_file) = {}
    /\ \A r \in get_skip_releases(skip_file) :
          catalog[r] = "unavailable" => failures_left[r] = 0

\* C6: a release whose fetch was answered with HTTP 429 is not put on the
\* skip file for it; it is stored once the provider stops throttling.
C6_ThrottlingNeverSkips ==
    \A r \in Releases :
        catalog[r] = "http429" => r \notin get_skip_releases(skip_file)

\* C7: within a run the checkpoint never drops below the value loaded at
\* the run's start and never decreases, except that the step completing the
\* walk sets it to zero; a run ended by an interruption, a crash or an
\* error leaves the checkpoint as it was.
C7_CheckpointMonotonic ==
    /\ [](pc \in RunPcs => Checkpoint >= last_processed_index)
    /\ [][read_index_file(index_file') < read_index_file(index_file) =>
             /\ pc = "iter" /\ index = Len(collection)
             /\ pc' = "done" /\ index_file' = <<0>>]_vars
    /\ [][pc' = "idle" => index_file' = index_file]_vars

\* C7 witness: a run resumed from a checkpoint a previous run wrote, moved
\* the checkpoint on, and exhausted the collection, which reset it.
C7_Witness ==
    /\ pc = "done"
    /\ initial_index_file = <<>>
    /\ last_processed_index > 0
    /\ \E p \in looked_up : p > last_processed_index
    /\ index_file = <<0>>

\* C8: a position below the loaded checkpoint is passed over with no fetch,
\* no lookup or write of the records table and no change to the skip file;
\* a run whose loaded checkpoint is the collection size fetches nothing,
\* leaves records and skip file as they were and ends with checkpoint 0.
C8_FastForward ==
    /\ [](pc \in RunPcs \cup {"done"} =>
             \A p \in fetched \cup looked_up : p >= last_processed_index)
    /\ [][(/\ pc = "iter" /\ pc' = "iter"
           /\ index < Len(collection)
           /\ index < last_processed_index) =>
              /\ index' = index + 1
              /\ UNCHANGED <<releases, skip_file, index_file, fetched,
                             looked_up>>]_vars
    /\ [][(pc \in RunPcs /\ last_processed_index >= Len(collection)) =>
              UNCHANGED <<releases, skip_file>>]_vars
    /\ []((pc = "done" /\ last_processed_index >= Len(collection)) =>
              /\ fetched = {} /\ looked_up = {}
              /\ index_file = <<0>>)

\* C8 witness: a run started with the checkpoint equal to the collection
\* size has passed over every position and completed.
C8_Witness ==
    /\ pc = "done"
    /\ Len(collection) = MaxLen
    /\ last_processed_index = Len(collection)
    /\ index = Len(collection)
    /\ index_file = <<0>>

\* A step of main (not of the editing UI).
MainStep == <<pc, index>>' # <<pc, index>>

\* C9: when the store holds a (non-empty) record for the item's release id,
\* whoever wrote it, main's step on that item fetches nothing, writes
\* neither the records table nor the skip file, and takes the stored record
\* as the item's data, so a second processing leaves the record identical.
C9_CacheHitBypassesFetch ==
    [][(/\ MainStep
        /\ pc \in {"iter", "process"}
        /\ index < Len(collection)
        /\ ~(index < last_processed_index)
        /\ get_release(releases, item) \notin {None, EmptyDict}) =>
           /\ fetched' = fetched
           /\ releases' = releases
           /\ skip_file' = skip_file
           /\ pc' = "render" => item_data' = get_release(releases, item)]_vars

\* C9 witness: main took a record the editing UI wrote as the item's data
\* without fetching the release.
C9_Witness ==
    /\ pc = "render"
    /\ item_data = EditedData(item)
    /\ index \notin fetched

\* C10: the records table holds at most one row per release id, and
\* get_release returns exactly the data of the most recent save_release for
\* that id (None when there was none).
C10_UpsertMap ==
    \A r \in Releases :
        /\ Cardinality({i \in 1..Len(releases) :
                           releases[i].release_id = r}) <= 1
        /\ get_release(releases, r) =
               IF saved[r] = Unsaved THEN None ELSE saved[r]
        /\ r \in get_all_releases(releases) <=> saved[r] # Unsaved

\* C10 witness: a record the pipeline stored in this run was overwritten by
\* the editing UI, and another record was overwritten by the empty object.
C10_Witness ==
    /\ \E p \in fetched : saved[collection[p + 1]] = EditedData(collection[p + 1])
    /\ \E r \in Releases : saved[r] = EmptyDict
    /\ Len(releases) > 1

\* The release at walk position p.
ReleaseAt(p) == collection[p + 1]

\* C11: a fetched release whose primary artist is the "Various" marker has a
\* record in the releases table and is not on the skip file.
C11_VariousIsStored ==
    \A p \in fetched :
        catalog[ReleaseAt(p)] = "various" =>
            /\ ReleaseAt(p) \in get_all_releases(releases)
            /\ ReleaseAt(p) \notin get_skip_releases(skip_file)

\* C12: no lookup (Discogs artist search or fetch, Wikipedia, Apple Music,
\* Spotify) is issued while processing a release whose primary artist is the
\* "Various" marker.
C12_VariousIssuesNoLookup ==
    \A c \in calls :
        catalog[ReleaseAt(c[1])] = "various" => c[2] \notin Providers

\* C13: a fetched release whose primary fetch answered is stored and is not
\* on the skip file, whatever the enrichment lookups (Apple Music, Spotify,
\* Wikipedia, the artist lookup) found.
C13_EnrichmentFailureDegrades ==
    \A p \in fetched :
        catalog[ReleaseAt(p)] \in {"ok", "bare"} =>
            /\ ReleaseAt(p) \in get_all_releases(releases)
            /\ ReleaseAt(p) \notin get_skip_releases(skip_file)

\* C14: the step in which a read or write of the releases table raises ends
\* the run: the walk does not go on, and the checkpoint file is as it was.
C14_StoreFailureHaltsRun ==
    [][~(db_failed_at' \subseteq db_failed_at) =>
           (pc' = "idle" /\ index_file' = index_file)]_vars

\* Length of a text after markup trimming; an absent text has length 0.
TrimmedLen(t) == IF t = None THEN 0 ELSE len(tidy_text(t))

\* The texts a merge function chooses among.
MergeSources(by) ==
    IF by = "create_artist_markdown_file"
    THEN {merge_in.profile, merge_in.artist_wikipedia_summary}
    ELSE IF by = "process_item"
    THEN {merge_in.artist_wikipedia_summary, merge_in.apple_music_bio}
    ELSE {merge_in.profile, merge_in.artist_wikipedia_summary,
          merge_in.apple_music_bio}

\* C15: the text a merge function returns is as long, after markup
\* trimming, as the longest of the texts it chooses among, whichever
\* provider supplied it (with an empty profile and texts of lengths 10 and
\* 50, the length-50 text).
C15_LongestNarrativeWins ==
    (merge_out # None /\ merge_out.value # Raised) =>
        \A t \in MergeSources(merge_out.by) :
            TrimmedLen(merge_out.value) >= TrimmedLen(t)

\* C16: the stored record keeps the catalog's cover image, and the Apple
\* Music artwork is downloaded as an item's cover only when the item's
\* record has no cover image of its own.
C16_PrimaryCoverNeverReplaced ==
    /\ \A r \in Releases :
          Truthy(get_release(releases, r)) =>
              get_release(releases, r).album_cover_url = DiscogsCover
    /\ \A c \in calls :
          (c[2] = "apple_music_artwork" /\ pc \in RunPcs \cup {"done"}) =>
              saved[ReleaseAt(c[1])].album_cover_url = None

\* C17: no failure ends a run before the walk completes: a run, once in its
\* loop, stays in it until the collection is exhausted.
C17_NoFailureAbortsRun ==
    [][(pc \in RunPcs) => (pc' \in RunPcs \/ pc' = "done")]_vars

\* C18: within one run create_artist_markdown_file is called at most once
\* per contributor id.
C18_ArtistPageAtMostOnce ==
    \A a \in Contributors : artist_pages[a] <= 1

\* C19: within one run at most one walk position carrying a given
\* contributor id issues the Discogs artist search.
C19_ContributorLookupOnce ==
    \A a \in Contributors :
        Cardinality({c \in calls :
                        /\ c[2] = "discogs_artist_search"
                        /\ artist_of[ReleaseAt(c[1])] = a}) <= 1

\* C20: once the pipeline has stored a release whose contributor resolved,
\* get_artist returns a record for that contributor id.
C20_ContributorInfoStored ==
    \A p \in fetched :
        (/\ ReleaseAt(p) \in get_all_releases(releases)
         /\ get_artist_info(ReleaseAt(p)) # None) =>
            get_artist(artists, artist_of[ReleaseAt(p)]) # None

\* C21: the checkpoint a run resumes from is the one get_last_processed_index
\* returns, and the step that finishes the attempt of position p leaves the
\* processed_index table as save_last_processed_index(p) writes it, so that
\* get_last_processed_index returns p.
C21_CheckpointInStore ==
    /\ [](pc \in RunPcs =>
             last_processed_index = get_last_processed_index(processed_index))
    /\ [][(pc = "checkpoint" /\ pc' = "iter") =>
              /\ processed_index' =
                     save_last_processed_index(processed_index, index)
              /\ get_last_processed_index(processed_index') = index]_vars

\* C22: a run in its loop reaches completion once the providers have
\* stopped throttling; no other failure holds it back or ends it.
C22_RunReachesDone == (pc \in RunPcs) ~> (pc = "done")

\* C23: every record in the releases table has exactly the canonical keys,
\* and what a provider did not supply (no Apple Music match, no images in
\* the catalog, no Spotify id) is stored as None under its key.
C23_CanonicalKeysPresent ==
    \A r \in get_all_releases(releases) :
        LET record == get_release(releases, r)
        IN  /\ Keys(record) = CanonicalKeys
            /\ Keys(saved[r]) = CanonicalKeys
            /\ catalog[r] = "bare" => record.apple_music_attributes = None
            /\ catalog[r] = "no_images" =>
                   /\ record.album_cover_url = None
                   /\ record.all_images_urls = None
            /\ ~spotify_token => record.spotify_id = None

\* C23 witness: the pipeline stored a release without an Apple Music match
\* and a release without images, with no Spotify token.
C23_Witness ==
    /\ ~spotify_token
    /\ \E r \in get_all_releases(releases) :
          catalog[r] = "bare" /\ saved[r].apple_music_attributes = None
    /\ \E r \in get_all_releases(releases) :
          catalog[r] = "no_images" /\ saved[r].album_cover_url = None

\* What the enrichment providers returned for a release that resolved, each
\* with the record key that is the provider's.
EnrichmentBlocks(r) ==
    (IF apple_music_data(catalog[r]) # None
     THEN {<<"apple_music_attributes", apple_music_data(catalog[r])>>}
     ELSE {})
    \cup (IF spotify_token THEN {<<"spotify_id", SpotifyId>>} ELSE {})
    \cup (IF artist_kind[artist_of[r]] = "full"
          THEN {<<"wikipedia_summary", Text>>} ELSE {})

\* C24: a stored record holds, under the provider's key, what each
\* enrichment provider returned for the release, unchanged.
C24_EnrichmentBlocksRetained ==
    \A r \in get_all_releases(releases) :
        \A b \in EnrichmentBlocks(r) :
            get_release(releases, r)[b[1]] = b[2]

\* C26: the record of a release for which the catalog lists no images
\* holds the "missing cover" URL as its cover image.
C26_MissingCoverSentinel ==
    \A r \in get_all_releases(releases) :
        catalog[r] = "no_images" =>
            get_release(releases, r).album_cover_url = MissingCover

\* Positions of the candidates whose name contains no denylisted substring.
Remaining ==
    {i \in 1..Len(search_results) : ~search_results[i].denylisted}

\* C25: the candidate a search returns is never a denylisted one; it is an
\* exact match when a remaining candidate is one, else a remaining candidate
\* of maximal similarity; and nothing is returned when no candidate remains.
C25_BestMatchSelection ==
    best_match # None =>
        LET chosen == best_match.value
        IN  /\ Remaining = {} => chosen = None
            /\ Remaining # {} =>
                   /\ chosen # None
                   /\ \E i \in Remaining : search_results[i] = chosen
                   /\ (\E i \in Remaining : exact_match(search_results[i])) =>
                          exact_match(chosen)
                   /\ \A i \in Remaining :
                          search_results[i].ratio <= chosen.ratio

\* Walk positions this run attempted: it looked the release up in the
\* releases table, or an operation of the DatabaseHandler failed on it.
Attempted == looked_up \cup db_failed_at

\* C27: whenever the run writes the checkpoint c, every position up to c
\* that the run attempted has its release in the releases table or on the
\* skip file.
C27_ProgressNeverOutrunsPersistence ==
    [][(pc = "checkpoint" /\ pc' = "iter") =>
           \A p \in Attempted' :
               p <= read_index_file(index_file') =>
                   \/ ReleaseAt(p) \in get_all_releases(releases')
                   \/ ReleaseAt(p) \in get_skip_releases(skip_file')]_vars

\* C30: the step of process_item in which the skip entry could not be
\* written returns None to main without an error and adds the release to
\* neither the releases table nor the skip file; main then writes the
\* checkpoint and goes on to the next position; and a run that reaches a
\* release that is neither stored nor in its skip set fetches it.
C30_FailedSkipWriteIsSilent ==
    /\ [][~(db_failed_at' \subseteq db_failed_at) =>
              /\ pc = "process" /\ pc' = "render"
              /\ index' = index
              /\ item_data' = None
              /\ releases' = releases
              /\ skip_file' = skip_file
              /\ item \notin get_all_releases(releases')]_vars
    /\ [][(pc = "render" /\ item_data = None) => pc' = "checkpoint"]_vars
    /\ [][(pc = "checkpoint") =>
              (pc' = "iter" /\ index' = index + 1
               /\ index_file' = <<index>>)]_vars
    /\ [][(pc = "process" /\ ~Truthy(get_release(releases, item))) =>
              index \in fetched']_vars

\* C30 witness: the only release of the collection, which fails on its
\* first two fetches, is stored while the skip file is empty: both skip
\* writes failed, and later runs fetched the release again.
C30_Witness ==
    /\ collection = <<"A">>
    /\ catalog["A"] = "unavailable"
    /\ failures_left["A"] = 0
    /\ "A" \in get_all_releases(releases)
    /\ skip_file = <<>>
    /\ 0 \in fetched

\* C28: the checkpoint file is written with the 0-based position of the
\* item whose checkpoint write was reached (and with 0 on completion); a run
\* loads it at its start and passes over a position without attempting it
\* only when the position is below the loaded value; the position equal to
\* the loaded value is attempted again, and it is served from the skip set
\* or the cache, without a fetch, when its release is on the skip file or
\* stored, as it is whenever an earlier run wrote that checkpoint.
C28_ResumeBoundary ==
    /\ [][index_file' # index_file =>
              \/ pc = "checkpoint" /\ index_file' = <<index>>
              \/ pc = "iter" /\ pc' = "done" /\ index_file' = <<0>>]_vars
    /\ [][(pc \notin RunPcs /\ pc' = "iter") =>
              last_processed_index' = read_index_file(index_file)]_vars
    /\ [][(/\ pc = "iter" /\ pc' = "iter"
           /\ index' = index + 1
           /\ item \notin skip_releases) => index < last_processed_index]_vars
    /\ [][(/\ pc = "iter" /\ pc' \in RunPcs
           /\ index = last_processed_index
           /\ index < Len(collection)) =>
              \/ item \in skip_releases /\ index' = index + 1
              \/ pc' \in {"process", "render"} /\ index \in looked_up']_vars
    /\ [][(/\ pc \in {"iter", "process"}
           /\ index = last_processed_index
           /\ index < Len(collection)
           /\ \/ item \in skip_releases
              \/ Truthy(get_release(releases, item))) =>
              fetched' = fetched]_vars
    /\ []((/\ initial_index_file = <<>>
           /\ index_file # <<>>
           /\ Checkpoint < Len(collection)) =>
              \/ ReleaseAt(Checkpoint) \in get_all_releases(releases)
              \/ ReleaseAt(Checkpoint) \in get_skip_releases(skip_file))

\* C28 witness: a run resumed from a checkpoint an earlier run wrote has
\* attempted the position equal to the checkpoint again and was served the
\* stored record, without a fetch.
C28_Witness ==
    /\ pc = "render"
    /\ initial_index_file = <<>>
    /\ last_processed_index > 0
    /\ index = last_processed_index
    /\ index \in looked_up
    /\ index \notin fetched
    /\ Truthy(item_data)

\* C29: a release the editing UI "deleted" has the empty object as its
\* record: get_release returns it, it is falsy, and get_all_releases lists
\* the id.  main's cache check sends such a release to process_item, which
\* fetches it and stores its record again (or puts it on the skip file when
\* the fetch fails), and the id stays listed.
C29_DeletedReleaseIsRefetched ==
    /\ [](\A r \in Releases :
             saved[r] = EmptyDict =>
                 /\ get_release(releases, r) = EmptyDict
                 /\ ~Truthy(get_release(releases, r))
                 /\ r \in get_all_releases(releases))
    /\ [][(/\ MainStep
           /\ pc = "iter"
           /\ index < Len(collection)
           /\ ~(index < last_processed_index)
           /\ item \notin skip_releases
           /\ get_release(releases, item) = EmptyDict) =>
              pc' = "process" /\ index' = index]_vars
    /\ [][(/\ MainStep
           /\ pc = "process"
           /\ get_release(releases, item) = EmptyDict) =>
              /\ index \in fetched'
              /\ item \in get_all_releases(releases')
              /\ IF fetch_raises(catalog[item], failures_left[item])
                 THEN item \in get_skip_releases(skip_file')
                 ELSE get_release(releases', item) =
                          ItemData(item, catalog[item])]_vars

\* C29 witness: in the walk [A, B] from an absent checkpoint, B's record is
\* the one the pipeline stored and A's record, fetched in this run, was
\* written after it: A was stored or cached before B, deleted, and fetched
\* and stored again by this run.
C29_Witness ==
    /\ collection = <<"A", "B">>
    /\ initial_index_file = <<>>
    /\ Len(releases) = 2
    /\ releases[1].release_id = "B"
    /\ saved["B"] = ItemData("B", catalog["B"])
    /\ saved["A"] = ItemData("A", catalog["A"])
    /\ 0 \in fetched

====
